---- MODULE Spec2Model ----
(***************************************************************************)
(* Model of validate_init_data (src/source.py): the validation of a        *)
(* Telegram Mini App initialisation payload.                                *)
(*                                                                         *)
(* A Python str is a sequence of code points (integers), a bytes object a  *)
(* sequence of integers in 0..255.  The library functions the code calls   *)
(* (str.__contains__, urllib.parse.parse_qsl, dict, sorted, str.join,      *)
(* hmac.new, int) are operators that compute what the library computes.    *)
(***************************************************************************)
EXTENDS Integers, Sequences, FiniteSets, TLC

\* ------------------------------------------------------------------ text

\* The code points of the characters the code names.
NL == 10            \* '\n'
SPACE == 32         \* ' '
PERCENT == 37       \* '%'
AMP == 38           \* '&'
PLUS == 43          \* '+'
MINUS == 45         \* '-'
EQUALS == 61        \* '='
UNDERSCORE == 95    \* '_'
\* U+FFFD, what bytes.decode(errors='replace') puts for an undecodable byte.
REPLACEMENT == 65533

\* 'user'
user == <<117, 115, 101, 114>>
\* 'chat_instance'
chat_instance == <<99, 104, 97, 116, 95, 105, 110, 115, 116, 97, 110, 99, 101>>
\* 'chat_type'
chat_type == <<99, 104, 97, 116, 95, 116, 121, 112, 101>>
\* 'auth_date'
auth_date_key == <<97, 117, 116, 104, 95, 100, 97, 116, 101>>
\* 'hash'
hash_key == <<104, 97, 115, 104>>
\* b"WebAppData"
WebAppData == <<87, 101, 98, 65, 112, 112, 68, 97, 116, 97>>

\* ------------------------------------------------- Python's str and bytes

\* sub in s (str.__contains__), for a sub that is not empty.
Contains(sub, s) ==
    \E i \in 1..(Len(s) - Len(sub) + 1) :
        /\ s[i] = sub[1]
        /\ \A j \in 2..Len(sub) : s[i + j - 1] = sub[j]

\* s.find(ch) + 1 for a single character that occurs in s.
FirstIndex(s, ch) ==
    CHOOSE i \in 1..Len(s) : s[i] = ch /\ \A j \in 1..(i - 1) : s[j] # ch

\* s.split(sep) for a single-character separator.
RECURSIVE Split(_, _)
Split(s, sep) ==
    IF \A i \in 1..Len(s) : s[i] # sep
    THEN <<s>>
    ELSE LET i == FirstIndex(s, sep)
         IN  <<SubSeq(s, 1, i - 1)>> \o Split(SubSeq(s, i + 1, Len(s)), sep)

\* s.replace('+', ' ').
PlusToSpace(s) == [i \in 1..Len(s) |-> IF s[i] = PLUS THEN SPACE ELSE s[i]]

\* The value of a hexadecimal digit (either case), -1 for any other character.
HexVal(c) ==
    IF c >= 48 /\ c <= 57 THEN c - 48
    ELSE IF c >= 97 /\ c <= 102 THEN c - 87
    ELSE IF c >= 65 /\ c <= 70 THEN c - 55
    ELSE -1

\* bytes([b]).decode('utf-8', 'replace') for a byte that neither follows nor
\* precedes another escaped byte >= 128: ASCII decodes to itself, any other
\* byte to U+FFFD.
DecodeByte(b) == IF b < 128 THEN b ELSE REPLACEMENT

\* The positions of s where an escape starts: a '%' and two hexadecimal
\* digits.  No escape starts inside another one ('%' is no digit).
EscapeStarts(s) ==
    {i \in 1..(Len(s) - 2) :
        s[i] = PERCENT /\ HexVal(s[i + 1]) >= 0 /\ HexVal(s[i + 2]) >= 0}

\* urllib.parse.unquote: a str without '%' is returned as it is; otherwise
\* %XX with two hexadecimal digits is the byte XX, and a '%' followed by
\* anything else stays.
unquote(s) ==
    IF \A i \in 1..Len(s) : s[i] # PERCENT
    THEN s
    ELSE LET starts == EscapeStarts(s)
             kept == {i \in 1..Len(s) : (i - 1) \notin starts /\ (i - 2) \notin starts}
             at(k) == CHOOSE i \in kept : Cardinality({j \in kept : j <= i}) = k
         IN  [k \in 1..Cardinality(kept) |->
                 IF at(k) \in starts
                 THEN DecodeByte(16 * HexVal(s[at(k) + 1]) + HexVal(s[at(k) + 2]))
                 ELSE s[at(k)]]

\* The UTF-8 encoding of one code point (below U+10000).
Utf8Char(cp) ==
    IF cp < 128 THEN <<cp>>
    ELSE IF cp < 2048 THEN <<192 + (cp \div 64), 128 + (cp % 64)>>
    ELSE <<224 + (cp \div 4096), 128 + ((cp \div 64) % 64), 128 + (cp % 64)>>

\* s.encode('utf-8'), one half of s after the other.
RECURSIVE Utf8(_)
Utf8(s) ==
    IF Len(s) = 0 THEN <<>>
    ELSE IF Len(s) = 1 THEN Utf8Char(s[1])
    ELSE LET mid == Len(s) \div 2
         IN  Utf8(SubSeq(s, 1, mid)) \o Utf8(SubSeq(s, mid + 1, Len(s)))

\* a < b for two str (code point by code point, a proper prefix is smaller).
LexLess(a, b) ==
    \E i \in 1..Len(b) :
        /\ i <= Len(a) + 1
        /\ \A j \in 1..(i - 1) : a[j] = b[j]
        /\ (i = Len(a) + 1 \/ a[i] < b[i])

\* "\n".join(lines) and, in general, sep.join(lines).
RECURSIVE Join(_, _)
Join(lines, sep) ==
    IF lines = <<>> THEN <<>>
    ELSE IF Len(lines) = 1 THEN lines[1]
    ELSE lines[1] \o <<sep>> \o Join(Tail(lines), sep)

\* ------------------------------------------------------ urllib.parse

\* The (name, value) pair parse_qsl makes of one '&'-separated field, as a
\* sequence of zero or one pairs.  With the defaults the code calls it with
\* (keep_blank_values=False, strict_parsing=False) a field without '=' and a
\* field whose value is empty are both skipped.
ParseField(name_value) ==
    IF \A i \in 1..Len(name_value) : name_value[i] # EQUALS
    THEN <<>>
    ELSE LET i == FirstIndex(name_value, EQUALS)
             name == SubSeq(name_value, 1, i - 1)
             value == SubSeq(name_value, i + 1, Len(name_value))
         IN  IF Len(value) = 0
             THEN <<>>
             ELSE << <<unquote(PlusToSpace(name)), unquote(PlusToSpace(value))>> >>

RECURSIVE ParseFields(_)
ParseFields(fields) ==
    IF fields = <<>> THEN <<>>
    ELSE ParseField(fields[1]) \o ParseFields(Tail(fields))

\* urllib.parse.parse_qsl(qs): the list of (name, value) pairs, in order.
parse_qsl(qs) == IF qs = <<>> THEN <<>> ELSE ParseFields(Split(qs, AMP))

\* dict(pairs), as the sequence of its (key, value) items in insertion order:
\* a key stands where it first occurs, with the value of its last pair.
dict(pairs) ==
    LET firsts == {i \in DOMAIN pairs : \A j \in 1..(i - 1) : pairs[j][1] # pairs[i][1]}
        at(k) == CHOOSE i \in firsts : Cardinality({j \in firsts : j <= i}) = k
        last(key) == CHOOSE i \in DOMAIN pairs :
                         /\ pairs[i][1] = key
                         /\ \A j \in DOMAIN pairs : pairs[j][1] = key => j <= i
    IN  [k \in 1..Cardinality(firsts) |->
            <<pairs[at(k)][1], pairs[last(pairs[at(k)][1])][2]>>]

\* key in d
HasKey(d, key) == \E i \in DOMAIN d : d[i][1] = key

\* d[key], for a key of d
Lookup(d, key) == d[CHOOSE i \in DOMAIN d : d[i][1] = key][2]

\* The dictionary d without key (what d.pop(key) leaves).
Without(d, key) ==
    LET kept == {i \in DOMAIN d : d[i][1] # key}
        at(k) == CHOOSE i \in kept : Cardinality({j \in kept : j <= i}) = k
    IN  [k \in 1..Cardinality(kept) |-> d[at(k)]]

\* a < b for two (key, value) tuples.
ItemLess(a, b) == LexLess(a[1], b[1]) \/ (a[1] = b[1] /\ LexLess(a[2], b[2]))

\* A faulty sorted: the items in the order of the dict.
unsorted(items) == items

\* sorted(items): the items in ascending order (no two items of a
\* dictionary are equal).
sorted(items) ==
    LET rank(i) == Cardinality({j \in DOMAIN items : ItemLess(items[j], items[i])})
    IN  [k \in 1..Len(items) |-> items[CHOOSE i \in DOMAIN items : rank(i) = k - 1]]

\* ------------------------------------------------------------- hmac

\* The number of bytes of a digest.  hashlib.sha256 has 32; the model keeps
\* a short digest.
DigestSize == 3

LaneMultiplier(i) == 7 + 24 * i

\* m to the power e, modulo 251.
RECURSIVE PowMod(_, _)
PowMod(m, e) ==
    IF e = 0 THEN 1
    ELSE LET half == PowMod(m, e \div 2)
         IN  (((half * half) % 251) * (IF e % 2 = 1 THEN m ELSE 1)) % 251

\* Horner's rule over bs[lo..hi], one half after the other: the value of
\* h after h = (h * m + b + 1) % 251 for each byte b, from h = 0.
RECURSIVE Horner(_, _, _, _)
Horner(bs, m, lo, hi) ==
    IF lo > hi THEN 0
    ELSE IF lo = hi THEN (bs[lo] + 1) % 251
    ELSE LET mid == (lo + hi) \div 2
         IN  (Horner(bs, m, lo, mid) * PowMod(m, hi - mid)
                  + Horner(bs, m, mid + 1, hi)) % 251

\* One lane of the digest: Horner's rule over every byte of bs, from seed.
Absorb(seed, m, bs) ==
    (seed * PowMod(m, Len(bs)) + Horner(bs, m, 1, Len(bs))) % 251

\* hmac.new(key, msg, hashlib.sha256).digest().  SHA-256 is not computed:
\* the digest is a keyed polynomial hash of key and message, one lane per
\* byte.  It is deterministic and depends on every byte of both arguments;
\* nothing below assumes more of it than the checks show.
hmac_sha256(key, msg) ==
    [i \in 1..DigestSize |-> Absorb(i, LaneMultiplier(i), key \o <<256>> \o msg)]

HexDigit(n) == IF n < 10 THEN 48 + n ELSE 87 + n

\* bytes.hex(): two lowercase hexadecimal digits per byte.
hexdigest(bs) ==
    [j \in 1..(2 * Len(bs)) |->
        LET b == bs[(j + 1) \div 2]
        IN  IF j % 2 = 1 THEN HexDigit(b \div 16) ELSE HexDigit(b % 16)]

\* _secret_key(bot_token)
secret_key_of(bot_token) == hmac_sha256(Utf8(WebAppData), Utf8(bot_token))

\* _hmac_hash(secret_key, data_check_string)
hmac_hash(secret_key, data_check_string) ==
    hexdigest(hmac_sha256(secret_key, Utf8(data_check_string)))

\* -------------------------------------------------------------- int

IsSpace(c) == c \in {9, 10, 11, 12, 13, 28, 29, 30, 31, 32}

IsDigit(c) == c >= 48 /\ c <= 57

\* s.strip()
Strip(s) ==
    LET solid == {i \in 1..Len(s) : ~IsSpace(s[i])}
    IN  IF solid = {} THEN <<>>
        ELSE SubSeq(s, CHOOSE i \in solid : \A j \in solid : i <= j,
                       CHOOSE i \in solid : \A j \in solid : j <= i)

\* The digits of a decimal literal: digits, with single underscores between.
IsDecimal(s) ==
    /\ Len(s) > 0
    /\ IsDigit(s[1])
    /\ IsDigit(s[Len(s)])
    /\ \A i \in 1..Len(s) : IsDigit(s[i]) \/ s[i] = UNDERSCORE
    /\ \A i \in 1..(Len(s) - 1) : ~(s[i] = UNDERSCORE /\ s[i + 1] = UNDERSCORE)

\* The value of a decimal literal, its underscores dropped.
DecimalValue(s) ==
    LET v[i \in 0..Len(s)] ==
            IF i = 0 THEN 0
            ELSE IF s[i] = UNDERSCORE THEN v[i - 1]
            ELSE 10 * v[i - 1] + (s[i] - 48)
    IN  v[Len(s)]

\* int(s) for a str: [ok |-> FALSE] stands for ValueError.
int(s) ==
    LET t == Strip(s)
        signed == Len(t) > 0 /\ t[1] \in {PLUS, MINUS}
        body == IF signed THEN Tail(t) ELSE t
    IN  IF IsDecimal(body)
        THEN [ok |-> TRUE,
              value |-> IF signed /\ t[1] = MINUS
                        THEN 0 - DecimalValue(body)
                        ELSE DecimalValue(body)]
        ELSE [ok |-> FALSE, value |-> 0]

\* ------------------------------------------------ validate_init_data

data_requirements == <<user, chat_instance, chat_type, auth_date_key, hash_key>>

\* A faulty presence check: the last missing name, not the first.
LastMissing(init_data) ==
    LET missing == {i \in 1..Len(data_requirements) :
                        ~Contains(data_requirements[i], init_data)}
    IN  IF missing = {} THEN 0
        ELSE CHOOSE i \in missing : \A j \in missing : i >= j

\* The index in data_requirements of the first name that is not a substring
\* of init_data (where the loop of the presence check raises), 0 when every
\* name occurs.
FirstMissing(init_data) ==
    LET missing == {i \in 1..Len(data_requirements) :
                        ~Contains(data_requirements[i], init_data)}
    IN  IF missing = {} THEN 0
        ELSE CHOOSE i \in missing : \A j \in missing : i <= j

\* f"Invalid format: Missing {data_req} in init_data."
MissingMessage(data_req) ==
    <<73, 110, 118, 97, 108, 105, 100, 32, 102, 111, 114, 109, 97, 116, 58, 32, 77, 105, 115, 115, 105, 110, 103, 32>>
        \o data_req
        \o <<32, 105, 110, 32, 105, 110, 105, 116, 95, 100, 97, 116, 97, 46>>

\* "Invalid 'auth_date' value in init_data."
AuthDateMessage ==
    <<73, 110, 118, 97, 108, 105, 100, 32, 39, 97, 117, 116, 104, 95, 100, 97, 116, 101, 39, 32, 118,
      97, 108, 117, 101, 32, 105, 110, 32, 105, 110, 105, 116, 95, 100, 97, 116, 97, 46>>

\* What a call ends with: a returned bool or a raised exception.
Return(b) == [kind |-> "return", value |-> IF b THEN "True" ELSE "False", message |-> <<>>]
Raise(exception, message) == [kind |-> "raise", value |-> exception, message |-> message]
Running == [kind |-> "running", value |-> "", message |-> <<>>]

\* '\n'.join([f'{k}={v}' for k, v in sorted(data.items())])
DataCheckString(data) ==
    LET items == sorted(data)
    IN  Join([i \in 1..Len(items) |-> items[i][1] \o <<EQUALS>> \o items[i][2]], NL)

\* int(data.get('auth_date')): a missing key gives None and a TypeError, a
\* value that is no integer a ValueError; both are [ok |-> FALSE].
AuthDate(data) ==
    IF HasKey(data, auth_date_key)
    THEN int(Lookup(data, auth_date_key))
    ELSE [ok |-> FALSE, value |-> 0]

\* A faulty expiry test: expired at the threshold already.
ExpiredAtThreshold(current_time, auth_date, expiration_time) ==
    current_time - auth_date >= expiration_time

\* current_time - auth_date > expiration_time
Expired(current_time, auth_date, expiration_time) ==
    current_time - auth_date > expiration_time

\* The whole function, run alone: the outcome of validate_init_data(init_data,
\* bot_token, expiration_time) when time.time() reads now.
validate_init_data(init_data, bot_token, expiration_time, now) ==
    LET missing == FirstMissing(init_data)
    IN  IF missing # 0
        THEN Raise("ValidationError", MissingMessage(data_requirements[missing]))
        ELSE LET parsed == dict(parse_qsl(init_data))
             IN  IF ~HasKey(parsed, hash_key)
                 THEN Raise("KeyError", hash_key)
                 ELSE LET received == Lookup(parsed, hash_key)
                          rest == Without(parsed, hash_key)
                          calculated == hmac_hash(secret_key_of(bot_token),
                                                  DataCheckString(rest))
                          parsed_date == AuthDate(rest)
                      IN  IF received # calculated
                          THEN Return(FALSE)
                          ELSE IF ~parsed_date.ok
                               THEN Raise("ValidationError", AuthDateMessage)
                               ELSE Return(~Expired(now, parsed_date.value,
                                                    expiration_time))

\* ------------------------------------------------------------ inputs

\* The largest value time.time() reads, the largest expiration_time a caller
\* passes and the number of concurrent calls.
MaxClock == 3
MaxExpiration == 2
NumCalls == 2

Tokens == {<<49, 58, 65>>, <<50, 58, 66>>}

\* The token the platform signs with.
IssuerToken == <<49, 58, 65>>

\* -1 is a threshold no age of a current payload meets.
ExpirationTimes == (0 - 1)..MaxExpiration

\* The fields payloads are made of: the required fields, a second user
\* field (percent-encoded), an auth_date that is no integer, a field that
\* holds required names only in its value, and a field with an empty value.
FieldPool ==
    << user \o <<61, 49>>,
       user \o <<61, 37, 55, 66, 50, 37, 55, 68>>,
       chat_instance \o <<61, 49>>,
       chat_type \o <<61, 112>>,
       auth_date_key \o <<61, 49>>,
       auth_date_key \o <<61, 120>>,
       <<113, 61>> \o chat_instance \o <<PLUS>> \o chat_type \o <<PLUS>> \o hash_key,
       user \o <<EQUALS>> >>

\* The fields of FieldPool with an index in chosen, in the order of the pool.
RECURSIVE Pick(_, _)
Pick(chosen, i) ==
    IF i > Len(FieldPool) THEN <<>>
    ELSE (IF i \in chosen THEN <<FieldPool[i]>> ELSE <<>>) \o Pick(chosen, i + 1)

Bodies == {Pick(chosen, 1) : chosen \in SUBSET (1..Len(FieldPool))}

\* The signature the platform puts on a list of fields.
Signature(fields) ==
    hmac_hash(secret_key_of(IssuerToken),
              DataCheckString(dict(ParseFields(fields))))

\* The hash field of a payload: none, one with an empty value, or the
\* platform's signature.
HashFields(fields) ==
    { <<>>,
      << hash_key \o <<EQUALS>> >>,
      << hash_key \o <<EQUALS>> \o Signature(fields) >> }

Payloads == UNION {{Join(b \o h, AMP) : h \in HashFields(b)} : b \in Bodies}

\* The fields, and a hash field with their signature.
Signed(fields) == Join(fields \o << hash_key \o <<EQUALS>> \o Signature(fields) >>, AMP)

\* The payloads whose orderings are compared: the usual five fields, the
\* same with a second user field, one with the required names in a value
\* and two user fields, and one with a field without a value.
OrderPayloads ==
    { Signed(Pick({1, 3, 4, 5}, 1)),
      Signed(Pick({1, 2, 3, 4, 5}, 1)),
      Signed(Pick({1, 2, 5, 7}, 1)),
      Signed(Pick({3, 4, 5, 8}, 1)) }

\* The payloads of the concurrent calls: a signed payload, the same without
\* its auth_date value and one without a hash.
ConcurrentPayloads ==
    { Signed(Pick({1, 3, 4, 5}, 1)),
      Signed(Pick({1, 3, 4, 6}, 1)),
      Join(Pick({1, 5, 7}, 1), AMP) }

\* ------------------------------------------------------------- state

VARIABLES
    init_data,          \* the arguments of each call
    bot_token,
    expiration_time,
    pc,                 \* where each call is
    data,               \* the locals of each call
    received_hash,
    data_check_string,
    secret_key,
    calculated_hash,
    auth_date,
    current_time,
    outcome             \* what each call ended with

vars == <<init_data, bot_token, expiration_time, pc, data, received_hash,
          data_check_string, secret_key, calculated_hash, auth_date,
          current_time, outcome>>

args == <<init_data, bot_token, expiration_time>>

\* The calls of calls, each with arguments of its own and nothing computed.
InitCalls(calls, payloads, tokens, thresholds) ==
    /\ init_data \in [calls -> payloads]
    /\ bot_token \in [calls -> tokens]
    /\ expiration_time \in [calls -> thresholds]
    /\ pc = [c \in calls |-> "check"]
    /\ data = [c \in calls |-> <<>>]
    /\ received_hash = [c \in calls |-> <<>>]
    /\ data_check_string = [c \in calls |-> <<>>]
    /\ secret_key = [c \in calls |-> <<>>]
    /\ calculated_hash = [c \in calls |-> <<>>]
    /\ auth_date = [c \in calls |-> 0]
    /\ current_time = [c \in calls |-> 0]
    /\ outcome = [c \in calls |-> Running]

Init == InitCalls(1..1, Payloads, Tokens, ExpirationTimes)

InitOrder == InitCalls(1..1, OrderPayloads, Tokens, ExpirationTimes)

InitConcurrent == InitCalls(1..NumCalls, ConcurrentPayloads, {IssuerToken}, {1})

\* The call c ends with result r.
Finish(c, r) ==
    /\ outcome' = [outcome EXCEPT ![c] = r]
    /\ pc' = [pc EXCEPT ![c] = "done"]

Goto(c, label) ==
    /\ pc' = [pc EXCEPT ![c] = label]
    /\ UNCHANGED outcome

\* for data_req in data_requirements: if data_req not in init_data: raise
CheckPresence(c) ==
    /\ pc[c] = "check"
    /\ LET missing == FirstMissing(init_data[c])
       IN  IF missing # 0
           THEN Finish(c, Raise("ValidationError",
                                MissingMessage(data_requirements[missing])))
           ELSE Goto(c, "parse")
    /\ UNCHANGED <<args, data, received_hash, data_check_string, secret_key,
                   calculated_hash, auth_date, current_time>>

\* data = dict(urllib.parse.parse_qsl(init_data))
Parse(c) ==
    /\ pc[c] = "parse"
    /\ data' = [data EXCEPT ![c] = dict(parse_qsl(init_data[c]))]
    /\ Goto(c, "pop")
    /\ UNCHANGED <<args, received_hash, data_check_string, secret_key,
                   calculated_hash, auth_date, current_time>>

\* received_hash = data.pop('hash'): a KeyError when data has no such key.
PopHash(c) ==
    /\ pc[c] = "pop"
    /\ IF HasKey(data[c], hash_key)
       THEN /\ received_hash' = [received_hash EXCEPT ![c] = Lookup(data[c], hash_key)]
            /\ data' = [data EXCEPT ![c] = Without(data[c], hash_key)]
            /\ Goto(c, "join")
       ELSE /\ Finish(c, Raise("KeyError", hash_key))
            /\ UNCHANGED <<data, received_hash>>
    /\ UNCHANGED <<args, data_check_string, secret_key, calculated_hash,
                   auth_date, current_time>>

\* A faulty join: the string is kept in a module global, one for all calls.
BuildCheckStringShared(c) ==
    /\ pc[c] = "join"
    /\ data_check_string' = [d \in DOMAIN pc |-> DataCheckString(data[c])]
    /\ Goto(c, "secret")
    /\ UNCHANGED <<args, data, received_hash, secret_key, calculated_hash,
                   auth_date, current_time>>

\* data_check_string = '\n'.join(...)
BuildCheckString(c) ==
    /\ pc[c] = "join"
    /\ data_check_string' = [data_check_string EXCEPT ![c] = DataCheckString(data[c])]
    /\ Goto(c, "secret")
    /\ UNCHANGED <<args, data, received_hash, secret_key, calculated_hash,
                   auth_date, current_time>>

\* secret_key = _secret_key(bot_token)
DeriveSecret(c) ==
    /\ pc[c] = "secret"
    /\ secret_key' = [secret_key EXCEPT ![c] = secret_key_of(bot_token[c])]
    /\ Goto(c, "sign")
    /\ UNCHANGED <<args, data, received_hash, data_check_string,
                   calculated_hash, auth_date, current_time>>

\* calculated_hash = _hmac_hash(secret_key, data_check_string)
ComputeHash(c) ==
    /\ pc[c] = "sign"
    /\ calculated_hash' = [calculated_hash EXCEPT ![c] =
                              hmac_hash(secret_key[c], data_check_string[c])]
    /\ Goto(c, "compare")
    /\ UNCHANGED <<args, data, received_hash, data_check_string, secret_key,
                   auth_date, current_time>>

\* A faulty comparison: False when the hashes are equal.
CompareInverted(c) ==
    /\ pc[c] = "compare"
    /\ IF received_hash[c] = calculated_hash[c]
       THEN Finish(c, Return(FALSE))
       ELSE Goto(c, "auth")
    /\ UNCHANGED <<args, data, received_hash, data_check_string, secret_key,
                   calculated_hash, auth_date, current_time>>

\* if received_hash != calculated_hash: return False
Compare(c) ==
    /\ pc[c] = "compare"
    /\ IF received_hash[c] # calculated_hash[c]
       THEN Finish(c, Return(FALSE))
       ELSE Goto(c, "auth")
    /\ UNCHANGED <<args, data, received_hash, data_check_string, secret_key,
                   calculated_hash, auth_date, current_time>>

\* try: auth_date = int(data.get('auth_date'))
\* except (TypeError, ValueError): raise ValidationError(...)
ParseAuthDate(c) ==
    /\ pc[c] = "auth"
    /\ LET parsed_date == AuthDate(data[c])
       IN  IF parsed_date.ok
           THEN /\ auth_date' = [auth_date EXCEPT ![c] = parsed_date.value]
                /\ Goto(c, "time")
           ELSE /\ Finish(c, Raise("ValidationError", AuthDateMessage))
                /\ UNCHANGED auth_date
    /\ UNCHANGED <<args, data, received_hash, data_check_string, secret_key,
                   calculated_hash, current_time>>

\* current_time = int(time.time()): the clock reads any time up to MaxClock.
ReadClock(c) ==
    /\ pc[c] = "time"
    /\ \E now \in 0..MaxClock : current_time' = [current_time EXCEPT ![c] = now]
    /\ Goto(c, "expire")
    /\ UNCHANGED <<args, data, received_hash, data_check_string, secret_key,
                   calculated_hash, auth_date>>

\* A faulty expiry check: it reads the clock a second time.
CheckExpiryRereadingClock(c) ==
    /\ pc[c] = "expire"
    /\ \E now \in 0..MaxClock :
           Finish(c, Return(~Expired(now, auth_date[c], expiration_time[c])))
    /\ UNCHANGED <<args, data, received_hash, data_check_string, secret_key,
                   calculated_hash, auth_date, current_time>>

\* if current_time - auth_date > expiration_time: return False
\* return True
CheckExpiry(c) ==
    /\ pc[c] = "expire"
    /\ Finish(c, Return(~Expired(current_time[c], auth_date[c], expiration_time[c])))
    /\ UNCHANGED <<args, data, received_hash, data_check_string, secret_key,
                   calculated_hash, auth_date, current_time>>

Next ==
    \/ \E c \in DOMAIN pc : CheckPresence(c)
    \/ \E c \in DOMAIN pc : Parse(c)
    \/ \E c \in DOMAIN pc : PopHash(c)
    \/ \E c \in DOMAIN pc : BuildCheckString(c)
    \/ \E c \in DOMAIN pc : DeriveSecret(c)
    \/ \E c \in DOMAIN pc : ComputeHash(c)
    \/ \E c \in DOMAIN pc : Compare(c)
    \/ \E c \in DOMAIN pc : ParseAuthDate(c)
    \/ \E c \in DOMAIN pc : ReadClock(c)
    \/ \E c \in DOMAIN pc : CheckExpiry(c)

\* One call.
Spec == Init /\ [][Next]_vars

\* One call, on a payload of OrderPayloads.
SpecOrder == InitOrder /\ [][Next]_vars

\* NumCalls calls, their steps interleaved in any order.
SpecConcurrent == InitConcurrent /\ [][Next]_vars

\* ------------------------------------------------------------ claims

\* What the arguments of call c decode to, and what a correct signature of
\* them is.
Parsed(c) == dict(parse_qsl(init_data[c]))
Rest(c) == Without(Parsed(c), hash_key)
ComputedSignature(c) == hmac_hash(secret_key_of(bot_token[c]), DataCheckString(Rest(c)))
HashMatches(c) ==
    HasKey(Parsed(c), hash_key) /\ Lookup(Parsed(c), hash_key) = ComputedSignature(c)
Returned(c, b) == outcome[c] = Return(b)
Raised(c, exception) == outcome[c].kind = "raise" /\ outcome[c].value = exception

\* C1: a call returns True only if the received hash equals the signature
\* computed over the canonical string of the decoded fields (hash excluded)
\* under the secret of the token, and now - auth_date is at most the
\* threshold.
TrueOnlyIfSignedAndFresh ==
    \A c \in DOMAIN pc :
        Returned(c, TRUE) =>
            /\ HashMatches(c)
            /\ AuthDate(Rest(c)).ok
            /\ current_time[c] - AuthDate(Rest(c)).value <= expiration_time[c]

\* A call returned True on a payload signed with its own token.
ReturnedTrue == \E c \in DOMAIN pc : Returned(c, TRUE) /\ bot_token[c] = IssuerToken

\* The fields of a payload, and the payload with its fields in the order f.
FieldsOf(payload) == IF payload = <<>> THEN <<>> ELSE Split(payload, AMP)
Permuted(payload, f) ==
    Join([k \in 1..Len(FieldsOf(payload)) |-> FieldsOf(payload)[f[k]]], AMP)

\* Two fields that decode to pairs with the same key.
SameKey(f1, f2) ==
    /\ ParseField(f1) # <<>>
    /\ ParseField(f2) # <<>>
    /\ ParseField(f1)[1][1] = ParseField(f2)[1][1]

\* The order f keeps the fields of one key in the order they had.
KeepsKeyOrder(payload, f) ==
    \A k1, k2 \in 1..Len(FieldsOf(payload)) :
        (k1 < k2 /\ SameKey(FieldsOf(payload)[f[k1]], FieldsOf(payload)[f[k2]]))
            => f[k1] < f[k2]

HasDuplicateKey(payload) ==
    \E i, j \in 1..Len(FieldsOf(payload)) :
        i < j /\ SameKey(FieldsOf(payload)[i], FieldsOf(payload)[j])

\* C2, as claimed: when a call returns True, the function returns True at
\* the same clock value for every permutation of the fields of the payload,
\* also of a payload in which a key occurs more than once.
OrderIndependent ==
    \A c \in DOMAIN pc :
        Returned(c, TRUE) =>
            \A f \in Permutations(1..Len(FieldsOf(init_data[c]))) :
                validate_init_data(Permuted(init_data[c], f), bot_token[c],
                                   expiration_time[c], current_time[c]) = Return(TRUE)

\* C2, amended: when a call returns True, the function returns True at the
\* same clock value for every permutation of the fields of the payload that
\* keeps the relative order of the fields of one key.
OrderIndependentKeepingDuplicates ==
    \A c \in DOMAIN pc :
        Returned(c, TRUE) =>
            \A f \in Permutations(1..Len(FieldsOf(init_data[c]))) :
                KeepsKeyOrder(init_data[c], f) =>
                    validate_init_data(Permuted(init_data[c], f), bot_token[c],
                                       expiration_time[c], current_time[c]) = Return(TRUE)

\* A call returned True on a payload with two fields of one key, of which
\* some order other than the given one keeps the fields of each key in order.
ReturnedTrueWithDuplicateKey ==
    \E c \in DOMAIN pc :
        /\ Returned(c, TRUE)
        /\ HasDuplicateKey(init_data[c])
        /\ \E f \in Permutations(1..Len(FieldsOf(init_data[c]))) :
               /\ KeepsKeyOrder(init_data[c], f)
               /\ Permuted(init_data[c], f) # init_data[c]

\* The positions of a payload inside a field value: after the first '=' of
\* their field.
ValuePositions(payload) ==
    {i \in 1..Len(payload) :
        /\ payload[i] # AMP
        /\ \E j \in 1..(i - 1) :
               payload[j] = EQUALS /\ \A k \in j..i : payload[k] # AMP}

\* The characters a tampered payload gets: '&', '=', '%', '+', '0', 'B',
\* 'b', 'x'.
TamperCharacters == {AMP, EQUALS, PERCENT, PLUS, 48, 66, 98, 120}

\* C3: when a call returns True, replacing one character of a field value
\* or of the hash value by another makes the function return False at the
\* same clock value, and not raise.
TamperedReturnsFalse ==
    \A c \in DOMAIN pc :
        Returned(c, TRUE) =>
            \A i \in ValuePositions(init_data[c]) :
                \A ch \in TamperCharacters \ {init_data[c][i]} :
                    validate_init_data([init_data[c] EXCEPT ![i] = ch], bot_token[c],
                                       expiration_time[c], current_time[c]) = Return(FALSE)

\* The required names that are no substring of a payload.
MissingNames(payload) ==
    {i \in 1..Len(data_requirements) : ~Contains(data_requirements[i], payload)}

\* C4: a call on a payload that lacks a required name raises
\* ValidationError with the message of the first missing name, in the order
\* of data_requirements, and does so before it decodes, hashes or reads the
\* clock.
MissingNameRaisesFirst ==
    \A c \in DOMAIN pc :
        MissingNames(init_data[c]) # {} =>
            /\ pc[c] \in {"check", "done"}
            /\ data[c] = <<>>
            /\ secret_key[c] = <<>>
            /\ calculated_hash[c] = <<>>
            /\ pc[c] = "done" =>
                   \E i \in MissingNames(init_data[c]) :
                       /\ \A j \in MissingNames(init_data[c]) : i <= j
                       /\ outcome[c] = Raise("ValidationError",
                                             MissingMessage(data_requirements[i]))

\* A call raised on a payload that lacks two names and has the first one.
RaisedOnSecondMissingName ==
    \E c \in DOMAIN pc :
        /\ pc[c] = "done"
        /\ Cardinality(MissingNames(init_data[c])) >= 2
        /\ 1 \notin MissingNames(init_data[c])

\* C5: a call on a payload that passes the presence check and has a hash,
\* and whose auth_date is no integer, raises ValidationError, whatever the
\* hash is; it does not return False.
BadAuthDateRaises ==
    \A c \in DOMAIN pc :
        (/\ pc[c] = "done"
         /\ MissingNames(init_data[c]) = {}
         /\ HasKey(Parsed(c), hash_key)
         /\ ~AuthDate(Rest(c)).ok)
            => Raised(c, "ValidationError")

SameInputsSameOutcome ==
    \A c1, c2 \in DOMAIN pc :
        (/\ pc[c1] = "done"
         /\ pc[c2] = "done"
         /\ init_data[c1] = init_data[c2]
         /\ bot_token[c1] = bot_token[c2]
         /\ expiration_time[c1] = expiration_time[c2]
         /\ current_time[c1] = current_time[c2])
            => outcome[c1] = outcome[c2]

\* Two calls with the same arguments and the same clock value have ended,
\* past the expiry check.
TwoEqualCallsEnded ==
    \E c1, c2 \in DOMAIN pc :
        /\ c1 # c2
        /\ pc[c1] = "done"
        /\ pc[c2] = "done"
        /\ init_data[c1] = init_data[c2]
        /\ bot_token[c1] = bot_token[c2]
        /\ current_time[c1] = current_time[c2]
        /\ Returned(c1, FALSE)
        /\ HashMatches(c1)

\* C8: with the steps of the calls interleaved in any order, each call ends
\* with the outcome the function has when run alone on the arguments and
\* the clock value of the call, and no step changes the arguments of a call.
ConcurrentCallsRunAlone ==
    /\ [](\A c \in DOMAIN pc :
            pc[c] = "done" =>
                outcome[c] = validate_init_data(init_data[c], bot_token[c],
                                                expiration_time[c], current_time[c]))
    /\ [][args' = args]_vars

\* All calls have ended, on different payloads, one of them with True.
DifferentCallsEnded ==
    /\ \A c \in DOMAIN pc : pc[c] = "done"
    /\ \E c1, c2 \in DOMAIN pc :
           /\ init_data[c1] # init_data[c2]
           /\ Returned(c1, TRUE)
           /\ ~Returned(c2, TRUE)

\* C9: a call on a payload that passes the presence check and decodes to no
\* hash key raises ValidationError.
NoHashKeyRaisesValidationError ==
    \A c \in DOMAIN pc :
        (/\ pc[c] = "done"
         /\ MissingNames(init_data[c]) = {}
         /\ ~HasKey(Parsed(c), hash_key))
            => Raised(c, "ValidationError")

\* The pair of one field that has an '=', its value empty or not.
PairOf(field) ==
    IF \A i \in 1..Len(field) : field[i] # EQUALS
    THEN <<>>
    ELSE LET i == FirstIndex(field, EQUALS)
         IN  << <<unquote(PlusToSpace(SubSeq(field, 1, i - 1))),
                  unquote(PlusToSpace(SubSeq(field, i + 1, Len(field))))>> >>

RECURSIVE PairsOf(_)
PairsOf(fields) ==
    IF fields = <<>> THEN <<>> ELSE PairOf(fields[1]) \o PairsOf(Tail(fields))

\* The canonical string of the claim: a line for every key of a key=value
\* field, empty values included, the hash aside.
EveryPairCheckString(payload) ==
    DataCheckString(Without(dict(PairsOf(FieldsOf(payload))), hash_key))

\* C10: the string a call signs has one line key=value for every key other
\* than hash of a key=value field of the payload, fields with an empty
\* value included, with the decoded value of the last field of the key, in
\* ascending order of the keys, joined by '\n'.
SignsEveryPair ==
    \A c \in DOMAIN pc :
        pc[c] \in {"secret", "sign", "compare", "auth", "time", "expire"} =>
            data_check_string[c] = EveryPairCheckString(init_data[c])

====
